---------------------------- MODULE Spec2Model ----------------------------
(***************************************************************************)
(* A model of libnop's Python example client (examples/shared.py) together *)
(* with the three entry points of the shared protocol library it calls,    *)
(* and of the header aggregation script (scripts/aggregate.py).            *)
(*                                                                         *)
(* Spec          : main() of examples/shared.py, one action per statement  *)
(*                 group, with the buffer length, the triangles and the    *)
(*                 reserve arguments drawn from bounded sets.              *)
(* SpecAggregate : main() of scripts/aggregate.py, the recursion of        *)
(*                 process() made explicit as a stack of frames.           *)
(*                                                                         *)
(* The shared library (out/shared_protocol.so) is loaded at run time; its   *)
(* three entry points are modelled from the written specification of the   *)
(* protocol (sections 4.1 to 4.5, 6 and 7).                                *)
(***************************************************************************)
EXTENDS Integers, Sequences, FiniteSets, TLC

VARIABLES
  pc,              \* shared.py: position of main()
  payload_buffer,  \* shared.py: the ctypes string buffer, a sequence of bytes
  polyhedron,      \* shared.py: the value bound to the name `polyhedron`
  count,           \* shared.py: the value bound to the name `count`
  output,          \* shared.py: what main() has printed so far
  built,           \* history: the arguments of the Polyhedron() call of line 106
  reserved,        \* history: the reserve argument of the Polyhedron() call of line 121
  written,         \* history: result of the most recent call that wrote the buffer
  apc,             \* aggregate.py: position of main()
  files,           \* aggregate.py: header path -> contents (a sequence of items)
  roots,           \* aggregate.py: the list main() iterates over (line 45)
  included_headers,\* aggregate.py: the set of line 11
  stack,           \* aggregate.py: the frames of process(), innermost first
  retval,          \* aggregate.py: value returned by the frame that just ended
  aggregate_header,\* aggregate.py: the string of line 43
  outfile,         \* aggregate.py: what has been written to out/unified.h
  entered          \* history: the headers process() went past line 26 for, in order

mainVars == <<pc, payload_buffer, polyhedron, count, output, built, reserved,
             written>>
aggVars  == <<apc, files, roots, included_headers, stack, retval,
              aggregate_header, outfile, entered>>
vars == <<mainVars, aggVars>>

---------------------------------------------------------------------------
(* Bounds of the model.                                                    *)

\* Longest list of triangles handed to Polyhedron().
MaxElems == 2

\* Largest reserve argument handed to Polyhedron().
MaxReserve == 3

\* Largest number of include directives in all header files together.
MaxDirectives == 4

---------------------------------------------------------------------------
(* ctypes types of shared.py.                                              *)

\* sizeof(c_float): the width of one Vec3 component.
SizeofFloat == 4

\* sizeof(c_size_t): the width of PolyhedronBase.size.
SizeofSizeT == 8

\* Number of c_float components of a Vec3.
Vec3Fields == 3

\* Number of Vec3 members of a Triangle.
TriangleFields == 3

ScalarsPerTriangle == TriangleFields * Vec3Fields

SizeofTriangle == ScalarsPerTriangle * SizeofFloat

Min(a, b) == IF a < b THEN a ELSE b

Max(a, b) == IF a < b THEN b ELSE a

RECURSIVE Log2Floor(_)
Log2Floor(n) == IF n < 2 THEN 0 ELSE 1 + Log2Floor(n \div 2)

RECURSIVE Pow2(_)
Pow2(e) == IF e = 0 THEN 1 ELSE 2 * Pow2(e - 1)

\* c_float(n) for a small non-negative Python integer n: the IEEE-754
\* single precision bit pattern that ctypes stores for it.
c_float(n) ==
  IF n = 0 THEN 0
  ELSE LET e == Log2Floor(n)
       IN  (127 + e) * Pow2(23) + (n - Pow2(e)) * Pow2(23 - e)

Vec3(x, y, z) == [x |-> c_float(x), y |-> c_float(y), z |-> c_float(z)]

Triangle(a, b, c) == [a |-> a, b |-> b, c |-> c]

\* A Triangle of a freshly created ctypes array: all bytes zero.
ZeroTriangle == Triangle(Vec3(0, 0, 0), Vec3(0, 0, 0), Vec3(0, 0, 0))

\* The three triangles main() builds.
MainTriangles ==
  << Triangle(Vec3(0, 0, 0), Vec3(1, 1, 1), Vec3(2, 2, 2)),
     Triangle(Vec3(3, 3, 3), Vec3(4, 4, 4), Vec3(5, 5, 5)),
     Triangle(Vec3(6, 6, 6), Vec3(7, 7, 7), Vec3(8, 8, 8)) >>

TriangleValues == {MainTriangles[i] : i \in 1..Len(MainTriangles)}

RECURSIVE SeqsUpTo(_, _)
SeqsUpTo(S, n) ==
  IF n = 0 THEN {<<>>}
  ELSE LET shorter == SeqsUpTo(S, n - 1)
       IN  shorter \cup {Append(s, x) : s \in {t \in shorter : Len(t) = n - 1}, x \in S}

\* The `elements` arguments the model passes to Polyhedron().
ElementLists == SeqsUpTo(TriangleValues, MaxElems)

\* The `reserve` arguments: <<>> stands for None, <<n>> for the integer n.
ReserveArgs == {<<>>} \cup {<<n>> : n \in 0..MaxReserve}

\* Lines 57-58: reserve defaults to len(elements).
ReserveOf(elements, reserve) ==
  IF reserve = <<>> THEN Len(elements) ELSE reserve[1]

\* Line 75: ArrayType(*elements) raises when handed more initializers than
\* the array's _length_.
PolyhedronRaises(elements, reserve) ==
  Len(elements) > ReserveOf(elements, reserve)

\* The size field set to the number of elements supplied.
PolyhedronSizeIsCount(elements, reserve) == Len(elements)

\* The size field left out of the initialisers, so that it stays zero.
PolyhedronSizeUnset(elements, reserve) == 0

\* The size field set one past the reserved length.
PolyhedronSizeOffByOne(elements, reserve) == ReserveOf(elements, reserve) + 1

\* Line 75: the first positional argument of PolyhedronType, the size field.
PolyhedronSize(elements, reserve) == ReserveOf(elements, reserve)

\* Lines 61-63 and 75: an array of `reserve` triangles, the leading ones
\* initialised from elements, the rest zero.
PolyhedronArray(elements, reserve) ==
  [i \in 1..ReserveOf(elements, reserve) |->
     IF i <= Len(elements) THEN elements[i] ELSE ZeroTriangle] \o <<>>

\* Lines 56-75, when nothing is raised.
Polyhedron(elements, reserve) ==
  [size      |-> PolyhedronSize(elements, reserve),
   triangles |-> PolyhedronArray(elements, reserve)]

\* create_string_buffer(n): n zero bytes.
create_string_buffer(n) == [i \in 1..n |-> 0] \o <<>>

\* Lines 69-72: __str__ reads triangles[0 .. size-1].
PolyhedronStr(p) == [i \in 1..p.size |-> p.triangles[i]]


---------------------------------------------------------------------------
(* The protocol library behind the three entry points, from the written    *)
(* specification: fixed-width scalars in one byte order, a bounds-checked  *)
(* buffer view, and the count-then-elements form of a Polyhedron.          *)

\* Magnitude of the negative code for "fewer bytes remain than the step needs".
OutOfSpace == 1

\* Magnitude of the negative code for "the count exceeds the reserved capacity".
CapacityExceeded == 2

\* A fixed-width unsigned value as `width` bytes, least significant first.
RECURSIVE EncodeLE(_, _)
EncodeLE(v, width) ==
  IF width = 0 THEN <<>> ELSE <<v % 256>> \o EncodeLE(v \div 256, width - 1)

\* The value of a run of bytes, least significant first.
RECURSIVE DecodeLE(_)
DecodeLE(bytes) ==
  IF bytes = <<>> THEN 0 ELSE Head(bytes) + 256 * DecodeLE(Tail(bytes))

\* The nine scalars of a triangle in declared field order.
TriangleScalars(t) ==
  << t.a.x, t.a.y, t.a.z, t.b.x, t.b.y, t.b.z, t.c.x, t.c.y, t.c.z >>

\* The triangle made of nine scalars in declared field order.
TriangleOfScalars(s) ==
  [a |-> [x |-> s[1], y |-> s[2], z |-> s[3]],
   b |-> [x |-> s[4], y |-> s[5], z |-> s[6]],
   c |-> [x |-> s[7], y |-> s[8], z |-> s[9]]]

\* The scalars of triangles 1..n of an array, element after element.
RECURSIVE FlatScalars(_, _)
FlatScalars(triangles, n) ==
  IF n = 0 THEN <<>>
  ELSE FlatScalars(triangles, n - 1) \o TriangleScalars(triangles[n])

\* Every scalar of a list encoded at its fixed width, one write per scalar.
RECURSIVE EncodeScalars(_)
EncodeScalars(scalars) ==
  IF scalars = <<>> THEN <<>>
  ELSE <<EncodeLE(Head(scalars), SizeofFloat)>> \o EncodeScalars(Tail(scalars))

\* The primitive writes of one encode call, in order: the count, then every
\* scalar of every element.
EncodeSteps(value) ==
  <<EncodeLE(value.size, SizeofSizeT)>> \o
  EncodeScalars(FlatScalars(value.triangles, value.size))

\* Buffer View write: the bytes at cursor+1 .. cursor+Len(bytes) replaced.
WriteBytes(buffer, cursor, bytes) ==
  SubSeq(buffer, 1, cursor) \o bytes \o
  SubSeq(buffer, cursor + Len(bytes) + 1, Len(buffer))

\* The primitive writes carried out one after the other; the first one that
\* does not fit within `capacity` stops the call and nothing of it is written.
RECURSIVE WriteSteps(_, _, _, _)
WriteSteps(steps, buffer, cursor, capacity) ==
  IF steps = <<>> THEN [ok |-> TRUE, buffer |-> buffer, cursor |-> cursor]
  ELSE IF Len(Head(steps)) > capacity - cursor
       THEN [ok |-> FALSE, buffer |-> buffer, cursor |-> cursor]
       ELSE WriteSteps(Tail(steps), WriteBytes(buffer, cursor, Head(steps)),
                       cursor + Len(Head(steps)), capacity)

\* A signed return value as the 64-bit two's complement word the library
\* hands back, least significant byte first.
ReturnWord(v) ==
  IF v >= 0 THEN EncodeLE(v, SizeofSizeT)
  ELSE LET magnitude == EncodeLE((-v) - 1, SizeofSizeT)
       IN  [i \in 1..SizeofSizeT |-> 255 - magnitude[i]]

\* Serialize(value, outBuffer, outCapacity): the returned word and the buffer
\* as the call leaves it.
SerializePolyhedronLib(value, buffer, capacity) ==
  LET w == WriteSteps(EncodeSteps(value), buffer, 0, capacity)
  IN  [ret    |-> ReturnWord(IF w.ok THEN w.cursor ELSE -OutOfSpace),
       buffer |-> w.buffer]

\* The fixed payload of GetReferencePayload: a Polyhedron of two triangles.
ReferencePolyhedron ==
  Polyhedron(<< Triangle(Vec3(0, 0, 0), Vec3(1, 0, 0), Vec3(0, 1, 0)),
                Triangle(Vec3(0, 0, 0), Vec3(0, 1, 0), Vec3(0, 0, 1)) >>, <<>>)

\* GetReferencePayload(outBuffer, outCapacity).
GetSerializedPolyhedronLib(buffer, capacity) ==
  SerializePolyhedronLib(ReferencePolyhedron, buffer, capacity)

\* The count a payload declares (its first SizeofSizeT bytes).
DeclaredCount(buffer) == DecodeLE(SubSeq(buffer, 1, SizeofSizeT))

\* The capacity of a destination: the length of its reserved array.
Capacity(p) == Len(p.triangles)

\* Scalar j of the payload's element area.
PayloadScalar(buffer, j) ==
  DecodeLE(SubSeq(buffer, SizeofSizeT + (j - 1) * SizeofFloat + 1,
                  SizeofSizeT + j * SizeofFloat))

\* The first m scalars of the payload's element area, decoded in order.
RECURSIVE DecodeScalars(_, _)
DecodeScalars(buffer, m) ==
  IF m = 0 THEN <<>>
  ELSE Append(DecodeScalars(buffer, m - 1), PayloadScalar(buffer, m))

\* A flat run of scalars regrouped into triangles.
RECURSIVE Regroup(_)
Regroup(scalars) ==
  IF scalars = <<>> THEN <<>>
  ELSE <<TriangleOfScalars(SubSeq(scalars, 1, ScalarsPerTriangle))>> \o
       Regroup(SubSeq(scalars, ScalarsPerTriangle + 1, Len(scalars)))

\* The destination array after the first m scalars were decoded into it.
DecodeInto(triangles, buffer, m) ==
  LET old == FlatScalars(triangles, Len(triangles))
  IN  Regroup(DecodeScalars(buffer, m) \o SubSeq(old, m + 1, Len(old)))

\* Deserialize(destination, inBuffer, inLength): the returned word and the
\* destination as the call leaves it.
\*   1. decode the count; 2. CapacityExceeded before any element is decoded;
\*   3. decode the elements in order; 4. set the logical count on success.
DeserializePolyhedronLib(dest, buffer, length) ==
  IF length < SizeofSizeT
  THEN [ret |-> ReturnWord(-OutOfSpace), dest |-> dest]
  ELSE LET n     == DeclaredCount(buffer)
           need  == n * ScalarsPerTriangle
           avail == (length - SizeofSizeT) \div SizeofFloat
       IN  IF n > Capacity(dest)
           THEN [ret |-> ReturnWord(-CapacityExceeded), dest |-> dest]
           ELSE IF avail < need
                THEN [ret  |-> ReturnWord(-OutOfSpace),
                      dest |-> [dest EXCEPT
                                  !.triangles = DecodeInto(@, buffer, avail)]]
                ELSE [ret  |-> ReturnWord(SizeofSizeT + need * SizeofFloat),
                      dest |-> [size      |-> n,
                                triangles |-> DecodeInto(dest.triangles, buffer, need)]]

---------------------------------------------------------------------------
(* The ctypes bindings of LoadProtocolLibrary.                             *)

\* restype of a narrower unsigned type: the low two bytes, never negative.
c_ushort(word) == DecodeLE(SubSeq(word, 1, 2))

\* restype = c_ssize_t: the returned word read as a signed 64-bit integer.
c_ssize_t(word) ==
  IF word[SizeofSizeT] >= 128
  THEN -(1 + DecodeLE([i \in 1..SizeofSizeT |-> 255 - word[i]]))
  ELSE DecodeLE(word)

\* Lines 91-93: SerializePolyhedron as Python calls it.
SerializePolyhedron(value, buffer, capacity) ==
  LET r == SerializePolyhedronLib(value, buffer, capacity)
  IN  [count |-> c_ssize_t(r.ret), buffer |-> r.buffer]

\* Lines 95-97: DeserializePolyhedron as Python calls it.
DeserializePolyhedron(dest, buffer, length) ==
  LET r == DeserializePolyhedronLib(dest, buffer, length)
  IN  [count |-> c_ssize_t(r.ret), dest |-> r.dest]

\* Lines 87-89: GetSerializedPolyhedron as Python calls it.
GetSerializedPolyhedron(buffer, capacity) ==
  LET r == GetSerializedPolyhedronLib(buffer, capacity)
  IN  [count |-> c_ssize_t(r.ret), buffer |-> r.buffer]

---------------------------------------------------------------------------
(* main() of examples/shared.py.                                           *)

\* The buffer lengths the model creates: too short for a count, and for
\* every element count k the exact payload length, a length that cuts the
\* next element inside its first scalar, and one a single byte short of it.
BufferLens ==
  {0, SizeofSizeT - 1} \cup
  {SizeofSizeT + k * SizeofTriangle + d :
     k \in 0..MaxReserve, d \in {0, SizeofFloat - 1, SizeofTriangle - 1}}

\* The value the names are bound to before their first assignment.
Unbound == [size |-> 0, triangles |-> <<>>]

PrintEvent(kind, number, bytes, triangles) ==
  [kind |-> kind, number |-> number, bytes |-> bytes, triangles |-> triangles]

\* Line 116 (the slice payload_buffer[0:count] stops at the buffer's end) and
\* lines 118 and 132.
PrintCount(c, buffer) ==
  IF c >= 0 THEN PrintEvent("bytes", c, SubSeq(buffer, 1, Min(c, Len(buffer))), <<>>)
  ELSE PrintEvent("Error", -c, <<>>, <<>>)

\* Lines 125 and 137, with lines 127 and 139.
PrintPolyhedron(c, p) ==
  IF c >= 0 THEN PrintEvent("polyhedron", c, <<>>, PolyhedronStr(p))
  ELSE PrintEvent("Error", -c, <<>>, <<>>)

Init ==
  /\ pc = "line103"
  /\ payload_buffer = <<>>
  /\ polyhedron = Unbound
  /\ count = 0
  /\ output = <<>>
  /\ built = [elements |-> <<>>, reserve |-> <<>>]
  /\ reserved = 0
  /\ written = 0
  /\ apc = "idle"
  /\ files = <<>>
  /\ roots = <<>>
  /\ included_headers = {}
  /\ stack = <<>>
  /\ retval = <<>>
  /\ aggregate_header = <<>>
  /\ outfile = <<>>
  /\ entered = <<>>

\* Line 103: payload_buffer = create_string_buffer(1024), for any length.
CreateBuffer ==
  /\ pc = "line103"
  /\ \E n \in BufferLens : payload_buffer' = create_string_buffer(n)
  /\ pc' = "line106"
  /\ UNCHANGED <<polyhedron, count, output, built, reserved, written>>

\* Lines 106-112: polyhedron = Polyhedron(...), for any elements and reserve.
\* An exception raised by the constructor ends main().
BuildPolyhedron ==
  /\ pc = "line106"
  /\ \E elements \in ElementLists, reserve \in ReserveArgs :
       /\ built' = [elements |-> elements, reserve |-> reserve]
       /\ IF PolyhedronRaises(elements, reserve)
          THEN /\ pc' = "raised"
               /\ UNCHANGED polyhedron
          ELSE /\ pc' = "line114"
               /\ polyhedron' = Polyhedron(elements, reserve)
  /\ UNCHANGED <<payload_buffer, count, output, reserved, written>>

\* Lines 114-118: serialize into the buffer and print the outcome.
CallSerialize ==
  /\ pc = "line114"
  /\ LET r == SerializePolyhedron(polyhedron, payload_buffer, Len(payload_buffer))
     IN  /\ count' = r.count
         /\ payload_buffer' = r.buffer
         /\ written' = r.count
         /\ output' = Append(output, PrintCount(r.count, r.buffer))
  /\ pc' = "line121"
  /\ UNCHANGED <<polyhedron, built, reserved>>

\* Line 121: polyhedron = Polyhedron(reserve=10), for any reserve.
ReservePolyhedron ==
  /\ pc = "line121"
  /\ \E n \in 0..MaxReserve :
       /\ reserved' = n
       /\ polyhedron' = Polyhedron(<<>>, <<n>>)
  /\ pc' = "line123"
  /\ UNCHANGED <<payload_buffer, count, output, built, written>>

\* The call handed one byte less than the buffer holds.
CallDeserializeShortLength ==
  /\ pc \in {"line123", "line135"}
  /\ LET r == DeserializePolyhedron(polyhedron, payload_buffer,
                                    Max(Len(payload_buffer) - 1, 0))
     IN  /\ count' = r.count
         /\ polyhedron' = r.dest
         /\ output' = Append(output, PrintPolyhedron(r.count, r.dest))
  /\ pc' = IF pc = "line123" THEN "line130" ELSE "done"
  /\ UNCHANGED <<payload_buffer, built, reserved, written>>

\* Lines 123-127 (from "line123") and lines 135-139 (from "line135").
CallDeserialize ==
  /\ pc \in {"line123", "line135"}
  /\ LET r == DeserializePolyhedron(polyhedron, payload_buffer, Len(payload_buffer))
     IN  /\ count' = r.count
         /\ polyhedron' = r.dest
         /\ output' = Append(output, PrintPolyhedron(r.count, r.dest))
  /\ pc' = IF pc = "line123" THEN "line130" ELSE "done"
  /\ UNCHANGED <<payload_buffer, built, reserved, written>>

\* Lines 130-133: fetch the library's own payload; return on a negative count.
CallGetSerialized ==
  /\ pc = "line130"
  /\ LET r == GetSerializedPolyhedron(payload_buffer, Len(payload_buffer))
     IN  /\ count' = r.count
         /\ payload_buffer' = r.buffer
         /\ written' = r.count
         /\ IF r.count < 0
            THEN /\ output' = Append(output, PrintCount(r.count, r.buffer))
                 /\ pc' = "done"
            ELSE /\ output' = output
                 /\ pc' = "line135"
  /\ UNCHANGED <<polyhedron, built, reserved>>

Next ==
  \/ CreateBuffer /\ UNCHANGED aggVars
  \/ BuildPolyhedron /\ UNCHANGED aggVars
  \/ CallSerialize /\ UNCHANGED aggVars
  \/ ReservePolyhedron /\ UNCHANGED aggVars
  \/ CallDeserialize /\ UNCHANGED aggVars
  \/ CallGetSerialized /\ UNCHANGED aggVars

Spec == Init /\ [][Next]_vars

---------------------------------------------------------------------------
(* Properties of examples/shared.py and the entry points it calls.         *)

\* The byte length of a payload of n triangles.
PayloadLen(n) == SizeofSizeT + n * SizeofTriangle

\* C1: round trip with dynamic extent.  When Polyhedron(elements) holds
\* exactly the n elements it was given, the buffer has room for the payload
\* and the destination was reserved with capacity C >= n, then Serialize
\* succeeds, the following Deserialize succeeds, the destination's size is n
\* and its elements 0..n-1 equal the source elements in the same order.
RoundTripDynamicExtent ==
  LET n == Len(built.elements)
  IN  ( /\ pc = "line130"
        /\ ReserveOf(built.elements, built.reserve) = n
        /\ Len(payload_buffer) >= PayloadLen(n)
        /\ n <= reserved )
      => /\ written = PayloadLen(n)
         /\ count >= 0
         /\ polyhedron.size = n
         /\ Len(polyhedron.triangles) = reserved
         /\ \A i \in 1..n : polyhedron.triangles[i] = built.elements[i]

RoundTripReached ==
  /\ pc = "line130"
  /\ Len(built.elements) = 2
  /\ built.elements[1] # built.elements[2]
  /\ built.reserve = <<>>
  /\ reserved > 2
  /\ count > 0
  /\ polyhedron.size = 2

\* C2: capacity enforcement.  Whenever Deserialize reads a declared count
\* greater than the destination's capacity, it returns CapacityExceeded and
\* leaves the destination (its count and every element slot) as it was.
CapacityEnforced ==
  [][ ( /\ pc \in {"line123", "line135"}
        /\ Len(payload_buffer) >= SizeofSizeT
        /\ DeclaredCount(payload_buffer) > Capacity(polyhedron) )
      => ( /\ count' = -CapacityExceeded
           /\ polyhedron' = polyhedron ) ]_vars

CapacityExceededReached ==
  /\ pc = "line130"
  /\ count = -CapacityExceeded
  /\ DeclaredCount(payload_buffer) > reserved
  /\ reserved > 0
  /\ output[Len(output)].kind = "Error"

\* C3: space enforcement.  Serialize into a buffer shorter than
\* sizeof(count) + count * sizeof(element) returns OutOfSpace, a negative
\* code, never a byte count, and the buffer keeps its length.
SpaceEnforced ==
  [][ ( /\ pc = "line114"
        /\ Len(payload_buffer) < PayloadLen(polyhedron.size) )
      => ( /\ count' = -OutOfSpace
           /\ count' < 0
           /\ Len(payload_buffer') = Len(payload_buffer) ) ]_vars

\* The buffer was short by only a part of the last element.
ShortInLastElementReached ==
  /\ pc = "line121"
  /\ count = -OutOfSpace
  /\ polyhedron.size >= 2
  /\ Len(payload_buffer) > PayloadLen(polyhedron.size - 1)
  /\ Len(payload_buffer) < PayloadLen(polyhedron.size)

\* C4 as stated: when Serialize succeeds and returns k, the following
\* Deserialize on the same buffer, given the buffer's full length, returns k.
ByteCountConserved ==
  (pc = "line130" /\ written >= 0) => count = written

\* C4 as amended: the same, for a destination whose capacity is at least the
\* count the payload declares.
ByteCountConservedWithinCapacity ==
  ( /\ pc = "line130"
    /\ written >= 0
    /\ DeclaredCount(payload_buffer) <= reserved )
  => count = written

\* The buffer is longer than the payload and both calls reported its length.
ByteCountReached ==
  /\ pc = "line130"
  /\ written > SizeofSizeT
  /\ count = written
  /\ Len(payload_buffer) > written

\* C5: count <= capacity always.  The size field of the value bound to
\* `polyhedron` never exceeds the length of its triangle storage, after
\* Polyhedron() and after every Deserialize, successful or failed.
CountWithinCapacity ==
  polyhedron.size <= Len(polyhedron.triangles)

CountBelowCapacityReached ==
  /\ pc = "done"
  /\ count >= 0
  /\ polyhedron.size < Len(polyhedron.triangles)

\* The pair GetSerializedPolyhedron, DeserializePolyhedron applied once more
\* to the buffer and the destination as they are.
RepeatedPair ==
  LET g == GetSerializedPolyhedron(payload_buffer, Len(payload_buffer))
      d == DeserializePolyhedron(polyhedron, g.buffer, Len(g.buffer))
  IN  [written |-> g.count, count |-> d.count, polyhedron |-> d.dest,
       payload_buffer |-> g.buffer]

\* The destination holds the reference payload.
HoldsReference ==
  /\ polyhedron.size = ReferencePolyhedron.size
  /\ \A i \in 1..ReferencePolyhedron.size :
       polyhedron.triangles[i] = ReferencePolyhedron.triangles[i]

\* C7 as stated: after a successful GetSerializedPolyhedron the Deserialize
\* of its output succeeds, and the same pair of calls repeated returns the
\* same byte count and leaves the destination in the same state.
ReferenceRoundTrip ==
  (pc = "done" /\ written >= 0)
  => /\ count >= 0
     /\ RepeatedPair.count = count
     /\ RepeatedPair.polyhedron = polyhedron

\* C7 as amended: the same, for a destination whose capacity is at least
\* the reference payload's count.
ReferenceRoundTripWithinCapacity ==
  (pc = "done" /\ written >= 0 /\ Capacity(polyhedron) >= ReferencePolyhedron.size)
  => /\ count >= 0
     /\ RepeatedPair.count = count
     /\ RepeatedPair.polyhedron = polyhedron

\* The reference payload was decoded over a destination that held another.
ReferenceRoundTripReached ==
  /\ pc = "done"
  /\ written = PayloadLen(ReferencePolyhedron.size)
  /\ count = written
  /\ HoldsReference
  /\ RepeatedPair.polyhedron = polyhedron
  /\ Len(output) = 3
  /\ output[2].kind = "polyhedron"
  /\ output[2].triangles # <<>>
  /\ output[3].kind = "polyhedron"
  /\ output[3].triangles # output[2].triangles

\* C8: a negative return is a hard failure.  A buffer whose most recent
\* write call returned a negative code is never passed to
\* DeserializePolyhedron, and after a failed DeserializePolyhedron main
\* prints the error, not the destination.
NegativeReturnIsHardFailure ==
  /\ pc \in {"line123", "line135"} => written >= 0
  /\ (pc \in {"line130", "done"} /\ count < 0)
       => output[Len(output)].kind = "Error"

---------------------------------------------------------------------------
(* main() of scripts/aggregate.py.                                         *)
(*                                                                         *)
(* A header file is a sequence of items: include directives for nop/       *)
(* headers, each on a line of its own and all written in the same          *)
(* spelling, followed by the file's own text.  Every directive names a     *)
(* header that exists.                                                     *)

\* The names by which directives refer to the headers.
HeaderNames == {"nop/a.h", "nop/utility/c.h", "nop/base/d.h"}

\* Line 35: os.path.join('include', name).
PathOf(name) == "include/" \o name

HeaderPaths == {PathOf(n) : n \in HeaderNames}

\* Line 45: the headers of include/nop/ that glob finds, then the utility
\* headers listed by name.
RootList == <<PathOf("nop/a.h"), PathOf("nop/utility/c.h")>>

\* The deepest nesting of process(): one frame per header, and the call
\* that finds its header already included.
DeepestNesting == Cardinality(HeaderNames) + 1

\* No call of process() is made from a nesting deeper than this.
MaxDepth == DeepestNesting + 1

Directive(name) == [kind |-> "include", name |-> name]

TextOf(path) == [kind |-> "text", name |-> path]

\* The directives of the file `owner` among a list of (owner, target) pairs.
RECURSIVE DirectivesOf(_, _)
DirectivesOf(owner, pairs) ==
  IF pairs = <<>> THEN <<>>
  ELSE (IF Head(pairs)[1] = owner THEN <<Directive(Head(pairs)[2])>> ELSE <<>>)
       \o DirectivesOf(owner, Tail(pairs))

\* The file system: every header's contents, for a list of (owner, target).
FilesOf(pairs) ==
  [path \in HeaderPaths |->
     LET name == CHOOSE n \in HeaderNames : PathOf(n) = path
     IN  DirectivesOf(name, pairs) \o <<TextOf(path)>>]

\* Lines 34-35: the (pattern, include) pairs of the matches of reInclude, in
\* the order of the text.
RECURSIVE Includes(_)
Includes(contents) ==
  IF contents = <<>> THEN <<>>
  ELSE (IF Head(contents).kind = "include"
        THEN <<[pattern |-> Head(contents), include |-> PathOf(Head(contents).name)]>>
        ELSE <<>>)
       \o Includes(Tail(contents))

\* Line 39: re.sub(re.escape(pattern), repl, contents, 0), every occurrence
\* of the pattern replaced.
RECURSIVE ReSub(_, _, _)
ReSub(pattern, repl, contents) ==
  IF contents = <<>> THEN <<>>
  ELSE (IF Head(contents) = pattern THEN repl ELSE <<Head(contents)>>)
       \o ReSub(pattern, repl, Tail(contents))

Frame(header) ==
  [header |-> header, line |-> "line25", contents |-> <<>>, includes |-> <<>>]

AggregateInit ==
  /\ pc = "idle"
  /\ payload_buffer = <<>>
  /\ polyhedron = Unbound
  /\ count = 0
  /\ output = <<>>
  /\ built = [elements |-> <<>>, reserve |-> <<>>]
  /\ reserved = 0
  /\ written = 0
  /\ apc = "line45"
  /\ \E pairs \in SeqsUpTo(HeaderNames \X HeaderNames, MaxDirectives) :
       files = FilesOf(pairs)
  /\ roots = RootList
  /\ included_headers = {}
  /\ stack = <<>>
  /\ retval = <<>>
  /\ aggregate_header = <<>>
  /\ outfile = <<>>
  /\ entered = <<>>

\* Lines 45-46: the next header of the list is handed to process().
MainNext ==
  /\ apc = "line45"
  /\ roots # <<>>
  /\ stack' = <<Frame(Head(roots))>>
  /\ roots' = Tail(roots)
  /\ apc' = "line46"
  /\ UNCHANGED <<files, included_headers, retval, aggregate_header, outfile, entered>>

\* Line 46: aggregate_header += the value process() returned.
MainAdd ==
  /\ apc = "line46"
  /\ stack = <<>>
  /\ aggregate_header' = aggregate_header \o retval
  /\ apc' = "line45"
  /\ UNCHANGED <<files, roots, included_headers, stack, retval, outfile, entered>>

\* Lines 48-50: the list is exhausted, the aggregate is written.
MainWrite ==
  /\ apc = "line45"
  /\ roots = <<>>
  /\ outfile' = aggregate_header
  /\ apc' = "done"
  /\ UNCHANGED <<files, roots, included_headers, stack, retval,
                 aggregate_header, entered>>

\* Lines 25-26: a header already in included_headers yields ''.
ProcessSkip ==
  /\ stack # <<>>
  /\ Head(stack).line = "line25"
  /\ Head(stack).header \in included_headers
  /\ retval' = <<>>
  /\ stack' = Tail(stack)
  /\ UNCHANGED <<apc, files, roots, included_headers, aggregate_header,
                 outfile, entered>>

\* Lines 28-36 without line 29: the header is not recorded.
ProcessReadUnrecorded ==
  /\ stack # <<>>
  /\ Head(stack).line = "line25"
  /\ Head(stack).header \notin included_headers
  /\ entered' = Append(entered, Head(stack).header)
  /\ stack' = <<[Head(stack) EXCEPT
                   !.line = "line37",
                   !.contents = files[Head(stack).header],
                   !.includes = Includes(files[Head(stack).header])]>>
               \o Tail(stack)
  /\ UNCHANGED <<apc, files, roots, included_headers, retval,
                 aggregate_header, outfile>>

\* Lines 28-36: the header is recorded, its file read and its includes listed.
ProcessRead ==
  /\ stack # <<>>
  /\ Head(stack).line = "line25"
  /\ Head(stack).header \notin included_headers
  /\ included_headers' = included_headers \cup {Head(stack).header}
  /\ entered' = Append(entered, Head(stack).header)
  /\ stack' = <<[Head(stack) EXCEPT
                   !.line = "line37",
                   !.contents = files[Head(stack).header],
                   !.includes = Includes(files[Head(stack).header])]>>
               \o Tail(stack)
  /\ UNCHANGED <<apc, files, roots, retval, aggregate_header, outfile>>

\* Lines 37-39: the next include is handed to process().
ProcessInclude ==
  /\ stack # <<>>
  /\ Head(stack).line = "line37"
  /\ Head(stack).includes # <<>>
  /\ Len(stack) < MaxDepth
  /\ stack' = <<Frame(Head(Head(stack).includes).include),
                [Head(stack) EXCEPT !.line = "line39"]>>
               \o Tail(stack)
  /\ UNCHANGED <<apc, files, roots, included_headers, retval,
                 aggregate_header, outfile, entered>>

\* Line 39: the returned text replaces the pattern in contents.
ProcessSub ==
  /\ stack # <<>>
  /\ Head(stack).line = "line39"
  /\ stack' = <<[Head(stack) EXCEPT
                   !.line = "line37",
                   !.contents = ReSub(Head(Head(stack).includes).pattern,
                                      retval, @),
                   !.includes = Tail(@)]>>
               \o Tail(stack)
  /\ UNCHANGED <<apc, files, roots, included_headers, retval,
                 aggregate_header, outfile, entered>>

\* Line 41: return contents.
ProcessReturn ==
  /\ stack # <<>>
  /\ Head(stack).line = "line37"
  /\ Head(stack).includes = <<>>
  /\ retval' = Head(stack).contents
  /\ stack' = Tail(stack)
  /\ UNCHANGED <<apc, files, roots, included_headers, aggregate_header,
                 outfile, entered>>

NextAggregate ==
  \/ MainNext /\ UNCHANGED mainVars
  \/ MainAdd /\ UNCHANGED mainVars
  \/ MainWrite /\ UNCHANGED mainVars
  \/ ProcessSkip /\ UNCHANGED mainVars
  \/ ProcessRead /\ UNCHANGED mainVars
  \/ ProcessInclude /\ UNCHANGED mainVars
  \/ ProcessSub /\ UNCHANGED mainVars
  \/ ProcessReturn /\ UNCHANGED mainVars

\* The script runs on until it ends: a step that can be taken is taken.
SpecAggregate ==
  /\ AggregateInit
  /\ [][NextAggregate]_vars
  /\ WF_vars(NextAggregate)

---------------------------------------------------------------------------
(* Properties of scripts/aggregate.py.                                     *)

\* The number of items of a sequence equal to x.
RECURSIVE Occurrences(_, _)
Occurrences(x, seq) ==
  IF seq = <<>> THEN 0
  ELSE (IF Head(seq) = x THEN 1 ELSE 0) + Occurrences(x, Tail(seq))

\* C6: each header's contents are inlined exactly once.  The text written
\* to the aggregate output holds the text of every processed header exactly
\* one time, whatever the include graph.
InlinedExactlyOnce ==
  apc = "done" =>
    \A h \in included_headers : Occurrences(TextOf(h), outfile) = 1

\* Every frame past line 29 has its header in included_headers.
RecordedBeforeRecursion ==
  \A i \in 1..Len(stack) :
    stack[i].line \in {"line37", "line39"} => stack[i].header \in included_headers

\* process() went past line 26 at most once for any header.
EnteredAtMostOnce ==
  \A i, j \in 1..Len(entered) : entered[i] = entered[j] => i = j

\* C9: the traversal terminates.  Every header is in the visited set before
\* its includes are recursed into, process() reads a given header at most
\* once, the recursion is never deeper than one call per header and one
\* more, and the run reaches the point where the aggregate output has been written.
TraversalTerminates ==
  /\ [](RecordedBeforeRecursion /\ EnteredAtMostOnce /\ Len(stack) <= DeepestNesting)
  /\ <>(apc = "done")

\* A run that ended on headers that include themselves and each other.
CyclicRunEnded ==
  /\ apc = "done"
  /\ \E a, b \in HeaderNames :
       /\ a # b
       /\ Occurrences(Directive(b), files[PathOf(a)]) > 0
       /\ Occurrences(Directive(a), files[PathOf(b)]) > 0
       /\ Occurrences(Directive(a), files[PathOf(a)]) > 0
  /\ Len(entered) = Cardinality(HeaderNames)

=============================================================================
